---- MODULE Spec2Model ----
(***************************************************************************)
(* Model of MarkText's document persistence layer:                         *)
(*   src/src/main/filesystem/markdown.js  (loadMarkdownFile,               *)
(*                                         writeMarkdownFile, AES codec)   *)
(*   src/src/main/menu/actions/file.js    (handleResponseForSave,          *)
(*                                         checkImgAndDelete, tryDelete)   *)
(* Text is a sequence of one-character strings.                            *)
(***************************************************************************)
EXTENDS Integers, Sequences, FiniteSets, TLC

VARIABLES
    pathname,   \* the path of the document on disk
    disk,       \* the bytes stored at pathname
    cedGuess,   \* the encoding the detector infers from those bytes
    original,   \* the bytes that were at pathname before any save (history)
    phase,      \* where the load/save flow stands
    loadArgs,   \* the arguments of the loadMarkdownFile call
    doc,        \* what loadMarkdownFile returned
    buffer,     \* the buffer writeMarkdownFile hands to writeFile
    pending,    \* the part of buffer that writeFile has not written yet
    req,        \* a save request of the renderer: id, pathname, markdown
    fsys,       \* the paths that exist, each a file or a directory with entries
    aphase,     \* where the save request and its asset collection stand
    filePath,   \* the path handleResponseForSave wrote
    imgRow,     \* the references the scanner returned
    dir,        \* the asset directory checkImgAndDelete examined
    prompt,     \* the paths the confirmation prompt lists
    trashed,    \* the paths handed to shell.trashItem
    returned,   \* the value the handleResponseForSave promise resolved to
    channel,    \* the close request the renderer sent
    unsavedFiles, \* the unsaved files the close request carries
    userResult, \* what showUnsavedFilesMessage returned
    outcome,    \* how the save of each unsaved file ended
    cphase,     \* where the close request stands
    tabIds,     \* the tab ids sent with 'mt::force-close-tabs-by-id'
    windowClosed \* whether 'window-close-by-id' was emitted

storeVars == <<pathname, disk, cedGuess, original, phase, loadArgs, doc, buffer, pending>>

assetVars == <<req, fsys, aphase, filePath, imgRow, dir, prompt, trashed, returned>>

closeVars == <<channel, unsavedFiles, userResult, outcome, cphase, tabIds, windowClosed>>

vars == <<storeVars, assetVars, closeVars>>

----------------------------------------------------------------------------
(* Bounds                                                                  *)

\* longest decoded file text
MaxLen == 4

\* most unsaved files a close request carries
MaxFiles == 2

\* most fragments a saved document is composed of
MaxFrags == 3

\* how many of the asset names may be entries of an asset directory
MaxNames == 3

----------------------------------------------------------------------------
(* Characters and strings                                                  *)

LF == "\n"
CR == "\r"
BOM == "BOM"

\* characters of a plain document
PlainChars == {"a", LF, CR}

\* all texts over chars of length at most n
TextsUpTo(chars, n) == UNION {[1..k -> chars] : k \in 0..n}

\* s[from..] (1-based), the empty text when from > Len(s)
Drop(s, from) == SubSeq(s, from, Len(s))

\* String.prototype.startsWith at position i (1-based)
MatchesAt(s, i, pat) ==
    /\ i >= 1
    /\ i + Len(pat) - 1 <= Len(s)
    /\ \A k \in 1..Len(pat) : s[i + k - 1] = pat[k]

\* String.prototype.endsWith
EndsWith(s, suf) == Len(suf) <= Len(s) /\ MatchesAt(s, Len(s) - Len(suf) + 1, suf)

\* String.prototype.indexOf, 1-based; 0 when pat does not occur (JS: -1)
IndexOf(s, pat) ==
    LET hits == {i \in 1..(Len(s) + 1) : MatchesAt(s, i, pat)}
    IN IF hits = {} THEN 0 ELSE CHOOSE i \in hits : \A j \in hits : i <= j

\* String.prototype.replace(pat, rep) with a string pattern: first occurrence only
ReplaceFirst(s, pat, rep) ==
    LET i == IndexOf(s, pat)
    IN IF i = 0 THEN s
       ELSE SubSeq(s, 1, i - 1) \o rep \o Drop(s, i + Len(pat))

\* last index of character c in s, 0 when absent
LastIndexOfChar(s, c) ==
    LET hits == {i \in 1..Len(s) : s[i] = c}
    IN IF hits = {} THEN 0 ELSE CHOOSE i \in hits : \A j \in hits : i >= j

\* path.basename
basename(p) == Drop(p, LastIndexOfChar(p, "/") + 1)

\* path.extname: from the last "." of the basename, "" for a dotfile or no dot
extname(p) ==
    LET b == basename(p)
        i == LastIndexOfChar(b, ".")
    IN IF i <= 1 THEN <<>> ELSE Drop(b, i)

DotMd == <<".", "m", "d">>
DotMde == <<".", "m", "d", "e">>

----------------------------------------------------------------------------
(* Line endings (markdown.js, ../config)                                   *)

\* length of a LINE_ENDING_REG match at position i: CRLF or LF, 0 for no match
LINE_ENDING_REG(text, i) ==
    IF MatchesAt(text, i, <<CR, LF>>) THEN 2
    ELSE IF MatchesAt(text, i, <<LF>>) THEN 1
    ELSE 0

\* a bare line feed, not preceded by a carriage return, occurs
LF_LINE_ENDING_REG(text) ==
    \E i \in 1..Len(text) : text[i] = LF /\ (i = 1 \/ text[i - 1] # CR)

\* a carriage-return line-feed pair occurs
CRLF_LINE_ENDING_REG(text) ==
    \E i \in 1..Len(text) : MatchesAt(text, i, <<CR, LF>>)

getLineEnding(lineEnding) ==
    IF lineEnding = "lf" THEN <<LF>>
    ELSE IF lineEnding = "crlf" THEN <<CR, LF>>
    ELSE <<LF>>

RECURSIVE ReplaceLineEndingsFrom(_, _, _)
ReplaceLineEndingsFrom(text, i, eol) ==
    IF i > Len(text) THEN <<>>
    ELSE LET n == LINE_ENDING_REG(text, i)
         IN IF n = 0 THEN <<text[i]>> \o ReplaceLineEndingsFrom(text, i + 1, eol)
            ELSE eol \o ReplaceLineEndingsFrom(text, i + n, eol)

convertLineEndings(text, lineEnding) ==
    ReplaceLineEndingsFrom(text, 1, getLineEnding(lineEnding))

----------------------------------------------------------------------------
(* DocumentCodec (markdown.js: mm, aesEncryptiv, aesDecryptiv)             *)

\* the process-wide key: md5 of a fixed pass phrase
mm == "md5:43214321md"

\* aes-128-cbc under (key, iv): a deterministic injection of the plaintext
\* into base64 text; a different iv gives a different ciphertext
CbcChar(key, iv, c) ==
    IF iv = key
    THEN (IF c = "a" THEN "A" ELSE IF c = LF THEN "K" ELSE IF c = CR THEN "R" ELSE "=")
    ELSE (IF c = "a" THEN "B" ELSE IF c = LF THEN "L" ELSE IF c = CR THEN "S" ELSE "=")

\* the padding block that closes every ciphertext
CbcEncrypt(str, key, iv) ==
    [i \in 1..Len(str) |-> CbcChar(key, iv, str[i])] \o <<"=">>

\* decipher.final() throws unless str is a ciphertext under (key, iv)
CbcDecrypt(str, key, iv) ==
    LET n == Len(str)
        isCipher ==
            /\ n >= 1
            /\ str[n] = "="
            /\ \A i \in 1..(n - 1) : \E c \in PlainChars : CbcChar(key, iv, c) = str[i]
    IN IF isCipher
       THEN [ok |-> TRUE,
             text |-> [i \in 1..(n - 1) |->
                         CHOOSE c \in PlainChars : CbcChar(key, iv, c) = str[i]]]
       ELSE [ok |-> FALSE, text |-> <<>>]

aesEncryptiv(str, key) ==
    LET keyBuffer == key
        iv == keyBuffer
    IN CbcEncrypt(str, keyBuffer, iv)

aesDecryptiv(str, key) ==
    LET keyBuffer == key
        iv == keyBuffer
    IN CbcDecrypt(str, keyBuffer, iv)

----------------------------------------------------------------------------
(* EncodingDetector and iconv                                              *)

\* guessEncoding: a leading byte-order mark decides; otherwise the guess,
\* or the fixed default when guessing is disabled
guessEncoding(buf, autoGuessEncoding, guess) ==
    IF Len(buf) >= 1 /\ buf[1] = BOM
    THEN [encoding |-> "utf8", isBom |-> TRUE]
    ELSE [encoding |-> IF autoGuessEncoding THEN guess ELSE "utf8", isBom |-> FALSE]

encodingExists(encoding) == encoding = "utf8"

\* iconv.decode strips a leading byte-order mark
iconvDecode(buf, encoding) ==
    IF Len(buf) >= 1 /\ buf[1] = BOM THEN Drop(buf, 2) ELSE buf

\* iconv.encode prepends the byte-order mark when addBOM is set
iconvEncode(content, encoding, addBOM) ==
    IF addBOM THEN <<BOM>> \o content ELSE content

----------------------------------------------------------------------------
(* loadMarkdownFile                                                        *)

\* values of trimTrailingNewline
TrimAll == 0
EnsureSingle == 1
AutoDetect == 2
UseDefault == 3

\* "Detect final newline", on the LF-normalized text
detectTrailingNewline(markdown) ==
    IF markdown = <<>> THEN UseDefault
    ELSE LET lastIndex == Len(markdown)
         IN IF lastIndex >= 2 /\ markdown[lastIndex] = LF /\ markdown[lastIndex - 1] = LF
            THEN 2    \* the literal the code assigns under its comment "Disabled"
            ELSE IF markdown[lastIndex] = LF THEN EnsureSingle
            ELSE TrimAll

\* the text the codec step leaves: the plaintext, or on a throw (caught and
\* ignored) the decoded text itself
decryptOnLoad(p, decoded) ==
    IF EndsWith(p, DotMde)
    THEN LET r == aesDecryptiv(decoded, mm)
         IN IF r.ok THEN [threw |-> FALSE, markdown |-> r.text]
            ELSE [threw |-> TRUE, markdown |-> decoded]
    ELSE [threw |-> FALSE, markdown |-> decoded]

\* the resolved line ending
resolveLineEnding(isLf, isCrlf, preferredEol) ==
    IF isLf /\ ~isCrlf THEN "lf"
    ELSE IF isCrlf /\ ~isLf THEN "crlf"
    ELSE preferredEol

\* whether the text is converted to LF for internal use
needsNormalize(isMixedLineEndings, isUnknownEnding, lineEnding) ==
    isMixedLineEndings \/ isUnknownEnding \/ lineEnding # "lf"

\* adjustFor with the flag raised for every normalized text
adjustFor_always(lineEnding) == TRUE

\* the value adjustLineEndingOnSave gets inside that branch
adjustFor(lineEnding) == lineEnding # "lf"

NoDoc == [status |-> "none"]

NoArgs == [preferredEol |-> "lf", autoGuessEncoding |-> TRUE, trimTrailingNewline |-> AutoDetect]

loadMarkdownFile(p, buf, guess, preferredEol, autoGuessEncoding, trimTrailingNewline) ==
    LET encoding == guessEncoding(buf, autoGuessEncoding, guess)
    IN IF ~encodingExists(encoding.encoding)
       THEN [status |-> "UnsupportedEncoding"]
       ELSE
       LET decoded == iconvDecode(buf, encoding.encoding)
           dec == decryptOnLoad(p, decoded)
           isLf == LF_LINE_ENDING_REG(dec.markdown)
           isCrlf == CRLF_LINE_ENDING_REG(dec.markdown)
           isMixedLineEndings == isLf /\ isCrlf
           isUnknownEnding == ~isLf /\ ~isCrlf
           lineEnding == resolveLineEnding(isLf, isCrlf, preferredEol)
           norm == needsNormalize(isMixedLineEndings, isUnknownEnding, lineEnding)
           markdown == IF norm THEN convertLineEndings(dec.markdown, "lf") ELSE dec.markdown
       IN [status |-> "ok",
           markdown |-> markdown,
           filename |-> basename(p),
           pathname |-> p,
           encoding |-> encoding,
           lineEnding |-> lineEnding,
           adjustLineEndingOnSave |-> IF norm THEN adjustFor(lineEnding) ELSE FALSE,
           trimTrailingNewline |->
               IF trimTrailingNewline = AutoDetect
               THEN detectTrailingNewline(markdown)
               ELSE trimTrailingNewline,
           isMixedLineEndings |-> isMixedLineEndings]

----------------------------------------------------------------------------
(* writeMarkdownFile                                                       *)

\* secureExtension with the codec selected for every extension
secureExtension_any(extension) == TRUE

\* the extension that selects the codec
secureExtension(extension) == extension = DotMde

\* the buffer handed to writeFile for (pathname, content, options)
writeMarkdownFile(p, content, options) ==
    LET extension == IF extname(p) = <<>> THEN DotMd ELSE extname(p)
        c1 == IF options.adjustLineEndingOnSave
              THEN convertLineEndings(content, options.lineEnding)
              ELSE content
        c2 == IF secureExtension(extension) THEN aesEncryptiv(c1, mm) ELSE c1
    IN iconvEncode(c2, options.encoding.encoding, options.encoding.isBom)

\* the options the renderer sends back for a loaded document
optionsOf(d) ==
    [adjustLineEndingOnSave |-> d.adjustLineEndingOnSave,
     lineEnding |-> d.lineEnding,
     encoding |-> d.encoding,
     trimTrailingNewline |-> d.trimTrailingNewline]

----------------------------------------------------------------------------
(* AssetReferenceScanner (file.js: getRelativeImgPathFromMarkdown)         *)

\* "." of a JavaScript regular expression: any character but a line terminator
NoNewline(s, a, b) == \A x \in a..b : s[x] \notin {LF, CR}

Min(S) == CHOOSE x \in S : \A y \in S : x <= y
Max(S) == CHOOSE x \in S : \A y \in S : x >= y

\* /\[.*?\]\(.+\)/ at position i: where ")" can close the match once "]("
\* sits at j
MarkEnds(s, j) ==
    {k \in (j + 3)..Len(s) : s[k] = ")" /\ NoNewline(s, j + 2, k - 1)}

\* where "](" can sit for a match that starts at i
MarkMids(s, i) ==
    {j \in (i + 1)..(Len(s) - 1) :
        /\ s[j] = "]"
        /\ s[j + 1] = "("
        /\ NoNewline(s, i + 1, j - 1)
        /\ MarkEnds(s, j) # {}}

\* the end of the match at i (lazy label, greedy target), 0 for no match
MarkMatchEnd(s, i) ==
    IF s[i] = "[" /\ MarkMids(s, i) # {}
    THEN Max(MarkEnds(s, Min(MarkMids(s, i))))
    ELSE 0

SrcWord == <<" ", "s", "r", "c">>
Quote == "\""

\* / src.+?".+?"/ at position i: where the closing quote can sit once the
\* opening quote sits at q
SrcEnds(s, q) ==
    {r \in (q + 2)..Len(s) : s[r] = Quote /\ NoNewline(s, q + 1, r - 1)}

\* where the opening quote can sit for a match that starts at i
SrcMids(s, i) ==
    {q \in (i + 5)..Len(s) :
        /\ s[q] = Quote
        /\ NoNewline(s, i + 4, q - 1)
        /\ SrcEnds(s, q) # {}}

\* the end of the match at i (both parts lazy), 0 for no match
SrcMatchEnd(s, i) ==
    IF MatchesAt(s, i, SrcWord) /\ SrcMids(s, i) # {}
    THEN Min(SrcEnds(s, Min(SrcMids(s, i))))
    ELSE 0

\* String.prototype.match with a global pattern: the matched texts, left to
\* right, each search resuming after the previous match
RECURSIVE MarkMatches(_, _)
MarkMatches(s, i) ==
    IF i > Len(s) THEN <<>>
    ELSE LET e == MarkMatchEnd(s, i)
         IN IF e = 0 THEN MarkMatches(s, i + 1)
            ELSE <<SubSeq(s, i, e)>> \o MarkMatches(s, e + 1)

RECURSIVE SrcMatches(_, _)
SrcMatches(s, i) ==
    IF i > Len(s) THEN <<>>
    ELSE LET e == SrcMatchEnd(s, i)
         IN IF e = 0 THEN SrcMatches(s, i + 1)
            ELSE <<SubSeq(s, i, e)>> \o SrcMatches(s, e + 1)

Escape20 == <<"%", "2", "0">>

\* decodeURI throws URIError on a "%" that starts no escape sequence
Malformed(e) == \E i \in 1..Len(e) : e[i] = "%" /\ ~MatchesAt(e, i, Escape20)

RECURSIVE DecodeFrom(_, _)
DecodeFrom(e, i) ==
    IF i > Len(e) THEN <<>>
    ELSE IF MatchesAt(e, i, Escape20) THEN <<" ">> \o DecodeFrom(e, i + 3)
    ELSE <<e[i]>> \o DecodeFrom(e, i + 1)

decodeURI(e) == DecodeFrom(e, 1)

\* imgMark.push.apply(imgMark, imgHtml) in the order html first
pushApply_htmlFirst(imgMark, imgHtml) == imgHtml \o imgMark

\* imgMark.push.apply(imgMark, imgHtml)
pushApply(imgMark, imgHtml) == imgMark \o imgHtml

\* the decoded matches, or a throw out of decodeURI
getRelativeImgPathFromMarkdown(markdown) ==
    LET all == pushApply(MarkMatches(markdown, 1), SrcMatches(markdown, 1))
    IN IF \E n \in 1..Len(all) : Malformed(all[n])
       THEN [threw |-> TRUE, imgRow |-> <<>>]
       ELSE [threw |-> FALSE, imgRow |-> [n \in 1..Len(all) |-> decodeURI(all[n])]]

----------------------------------------------------------------------------
(* OrphanAssetCollector (file.js: checkImgAndDelete, tryDelete)            *)

DotAssets == <<".", "a", "s", "s", "e", "t", "s">>
Sep == <<"/">>

\* the asset directory checkImgAndDelete derives from the saved path
assetDirOf(p) ==
    ReplaceFirst(ReplaceFirst(p, DotMde, DotAssets), DotMd, DotAssets)

existsSync(fs, p) == p \in DOMAIN fs

Png == <<".", "p", "n", "g">>

\* names an asset directory may hold, in readdir order
AssetNames ==
    << <<"a">> \o Png, <<"b">> \o Png, <<"c">> \o Png, <<"a", "a">> \o Png >>

NameIndex(name) == CHOOSE n \in 1..Len(AssetNames) : AssetNames[n] = name

\* a set of entry names as the array readdirSync returns
RECURSIVE SortedEntries(_)
SortedEntries(names) ==
    IF names = {} THEN <<>>
    ELSE LET first == CHOOSE x \in names : \A y \in names : NameIndex(x) <= NameIndex(y)
         IN <<first>> \o SortedEntries(names \ {first})

\* onePath.indexOf(dirFile) > -1 with equality in place of containment
contains_exact(onePath, dirFile) == onePath = dirFile

\* onePath.indexOf(dirFile) > -1
contains(onePath, dirFile) == IndexOf(onePath, dirFile) > 0

\* the forEach over dirFiles: the entries no reference contains, as paths
RECURSIVE notNeedFiles(_, _, _)
notNeedFiles(d, dirFiles, refs) ==
    IF dirFiles = <<>> THEN <<>>
    ELSE LET dirFile == Head(dirFiles)
             ifhas == \E n \in 1..Len(refs) : contains(refs[n], dirFile)
         IN (IF ifhas THEN <<>> ELSE <<d \o Sep \o dirFile>>)
            \o notNeedFiles(d, Tail(dirFiles), refs)

\* checkImgAndDelete up to the prompt of tryDelete: what it scanned, the
\* directory it examined and the paths it asks to delete (none: no prompt)
checkImgAndDelete(fs, p, markdown) ==
    LET scan == getRelativeImgPathFromMarkdown(markdown)
        d == assetDirOf(p)
        hasDir == existsSync(fs, d)
    IN IF scan.threw
       THEN [outcome |-> "threw", imgRow |-> <<>>, dir |-> <<>>, paths |-> <<>>]
       ELSE IF hasDir /\ Len(scan.imgRow) = 0
       THEN [outcome |-> "prompt", imgRow |-> scan.imgRow, dir |-> d, paths |-> <<d>>]
       ELSE IF ~hasDir
       THEN [outcome |-> "noop", imgRow |-> scan.imgRow, dir |-> d, paths |-> <<>>]
       ELSE IF ~fs[d].isDir
       THEN [outcome |-> "threw", imgRow |-> scan.imgRow, dir |-> d, paths |-> <<>>]
       ELSE LET files == notNeedFiles(d, SortedEntries(fs[d].entries), scan.imgRow)
            IN [outcome |-> IF Len(files) > 0 THEN "prompt" ELSE "noop",
                imgRow |-> scan.imgRow, dir |-> d, paths |-> files]

----------------------------------------------------------------------------
(* Idle values: a behaviour is either a load and save of one file, or one  *)
(* save request of the renderer with its asset collection                  *)

NoId == 0
NoReq == [id |-> NoId, pathname |-> <<>>, markdown |-> <<>>]

AssetIdle ==
    /\ req = NoReq
    /\ fsys = <<>>
    /\ aphase = "idle"
    /\ filePath = <<>>
    /\ imgRow = <<>>
    /\ dir = <<>>
    /\ prompt = <<>>
    /\ trashed = {}
    /\ returned = NoId

StoreIdle ==
    /\ pathname = <<>>
    /\ disk = <<>>
    /\ cedGuess = "utf8"
    /\ original = <<>>
    /\ phase = "idle"
    /\ loadArgs = NoArgs
    /\ doc = NoDoc
    /\ buffer = <<>>
    /\ pending = <<>>

CloseIdle ==
    /\ channel = "none"
    /\ unsavedFiles = <<>>
    /\ userResult = "unanswered"
    /\ outcome = <<>>
    /\ cphase = "idle"
    /\ tabIds = {}
    /\ windowClosed = FALSE

----------------------------------------------------------------------------
(* The document store: a file is loaded, then saved back                   *)

Eols == {"lf", "crlf"}
TrimOptions == {TrimAll, EnsureSingle, AutoDetect, UseDefault}

StorePaths ==
    { <<"/", "d">> \o DotMd,      \* /d.md
      <<"/", "d">> \o DotMde }     \* /d.mde

PlainTexts == TextsUpTo(PlainChars, MaxLen)

\* what a file at p may hold: any plain text, and under the secure
\* extension also what a secure save wrote
FileTexts(p) ==
    PlainTexts \cup
    (IF EndsWith(p, DotMde) THEN {aesEncryptiv(t, mm) : t \in PlainTexts} ELSE {})

StoreInit ==
    /\ pathname \in StorePaths
    /\ \E t \in FileTexts(pathname), bom \in BOOLEAN :
           disk = iconvEncode(t, "utf8", bom)
    /\ cedGuess \in {"utf8", "x-unsupported"}
    /\ original = disk
    /\ phase = "onDisk"
    /\ loadArgs = NoArgs
    /\ doc = NoDoc
    /\ buffer = <<>>
    /\ pending = <<>>
    /\ AssetIdle
    /\ CloseIdle

\* loadMarkdownFile(pathname, preferredEol, autoGuessEncoding, trimTrailingNewline)
Load(preferredEol, autoGuessEncoding, trimTrailingNewline) ==
    /\ phase = "onDisk"
    /\ loadArgs' = [preferredEol |-> preferredEol,
                    autoGuessEncoding |-> autoGuessEncoding,
                    trimTrailingNewline |-> trimTrailingNewline]
    /\ doc' = loadMarkdownFile(pathname, disk, cedGuess, preferredEol,
                               autoGuessEncoding, trimTrailingNewline)
    /\ phase' = IF doc'.status = "ok" THEN "loaded" ELSE "loadFailed"
    /\ UNCHANGED <<pathname, disk, cedGuess, original, buffer, pending, assetVars, closeVars>>

\* writeMarkdownFile(pathname, markdown, options) up to the writeFile call,
\* which opens pathname itself for writing and so truncates it; the document
\* may be saved again once it was saved
WriteOpen ==
    /\ phase \in {"loaded", "saved"}
    /\ buffer' = writeMarkdownFile(doc.pathname, doc.markdown, optionsOf(doc))
    /\ pending' = buffer'
    /\ disk' = <<>>
    /\ phase' = "writing"
    /\ UNCHANGED <<pathname, cedGuess, original, loadArgs, doc, assetVars, closeVars>>

\* writeFile writes the next part of the buffer to pathname
WriteChunk ==
    /\ phase = "writing"
    /\ pending # <<>>
    /\ \E n \in 1..Len(pending) :
           /\ disk' = disk \o SubSeq(pending, 1, n)
           /\ pending' = Drop(pending, n + 1)
    /\ UNCHANGED <<pathname, cedGuess, original, phase, loadArgs, doc, buffer, assetVars, closeVars>>

\* writeFile's promise resolves
WriteDone ==
    /\ phase = "writing"
    /\ pending = <<>>
    /\ phase' = "saved"
    /\ UNCHANGED <<pathname, disk, cedGuess, original, loadArgs, doc, buffer, pending, assetVars, closeVars>>

\* the process stops during the save
Crash ==
    /\ phase = "writing"
    /\ phase' = "crashed"
    /\ UNCHANGED <<pathname, disk, cedGuess, original, loadArgs, doc, buffer, pending, assetVars, closeVars>>

StoreNext ==
    \/ \E e \in Eols, g \in BOOLEAN, t \in TrimOptions : Load(e, g, t)
    \/ WriteOpen
    \/ WriteChunk
    \/ WriteDone
    \/ Crash

----------------------------------------------------------------------------
(* A save request (file.js: handleResponseForSave, tryDelete)              *)

TabId == 1

DocDir == <<"/", "d">>
DocBase == <<"/", "n">>
Ext(w) == <<".">> \o w

\* some of MARKDOWN_EXTENSIONS
DocExtensions ==
    { DotMd, DotMde,
      Ext(<<"m", "a", "r", "k", "d", "o", "w", "n">>),
      Ext(<<"m", "d", "x">>),
      Ext(<<"t", "x", "t">>) }

\* parent directories, two of them with ".md" and ".mde" in their name
DocDirs == { DocDir, DocDir \o DotMd, DocDir \o DotMde }

BasicPath == DocDir \o DocBase \o DotMd

RichPaths == { d \o DocBase \o e : d \in DocDirs, e \in DocExtensions }

\* what the save dialog returns for an untitled document; <<>>: cancelled
DialogChoices == { <<>>, DocDir \o DocBase, BasicPath }

LinkA == <<"!", "[", "x", "]", "(">> \o AssetNames[1] \o <<")">>
LinkAA == <<"[", "y", "]", "(">> \o AssetNames[4] \o <<")">>
ImgB == <<"<", "i", "m", "g">> \o SrcWord \o <<"=", Quote>> \o AssetNames[2] \o <<Quote, ">">>

\* the pieces a saved document is composed of
Fragments ==
    { LinkA, LinkAA, ImgB, <<LF>>, <<")">>, Escape20, <<"%">>, <<" ">> }

RECURSIVE Compositions(_)
Compositions(n) ==
    IF n = 0 THEN {<<>>}
    ELSE LET shorter == Compositions(n - 1)
         IN shorter \cup {c \o f : c \in shorter, f \in Fragments}

RichContents == Compositions(MaxFrags)

BasicContents == { <<>>, LinkA, LinkAA }

EntryNames == { AssetNames[n] : n \in 1..MaxNames }

\* the pathname with only its final extension removed and ".assets" appended
SiblingAssetDir(p) == SubSeq(p, 1, Len(p) - Len(extname(p))) \o DotAssets

FileNode == [isDir |-> FALSE, entries |-> {}]
DirNode(names) == [isDir |-> TRUE, entries |-> names]

\* the path a request will be saved at
TargetOf(r) == IF r.pathname = <<>> THEN BasicPath ELSE r.pathname

\* the file systems a request may meet: the document when it has a path,
\* and any of the sibling asset directory and the directory the collector
\* derives, with any entries
FileSystems(r) ==
    LET p == TargetOf(r)
        docs == IF r.pathname = <<>> THEN {} ELSE {p}
        ds == {SiblingAssetDir(p), assetDirOf(p)} \ {p}
    IN { [x \in docs \cup present |-> IF x \in docs THEN FileNode ELSE DirNode(names)] :
            present \in SUBSET ds, names \in SUBSET EntryNames }

Requests ==
    [id : {TabId}, pathname : {BasicPath}, markdown : RichContents]
    \cup [id : {TabId}, pathname : RichPaths \cup {<<>>}, markdown : BasicContents]

AssetInit ==
    /\ req \in Requests
    /\ fsys \in FileSystems(req)
    /\ aphase = "request"
    /\ filePath = <<>>
    /\ imgRow = <<>>
    /\ dir = <<>>
    /\ prompt = <<>>
    /\ trashed = {}
    /\ returned = NoId
    /\ StoreIdle
    /\ CloseIdle

\* filePath with the extension appended when it has none
withExtension(p) ==
    LET extension == IF extname(p) = <<>> THEN DotMd ELSE extname(p)
    IN IF ~EndsWith(p, extension) THEN p \o extension ELSE p

\* the paths handleResponseForSave may end up with: the path of the request,
\* or for an untitled document what the save dialog returned
ChosenPaths(r) == IF r.pathname = <<>> THEN DialogChoices ELSE {r.pathname}

\* handleResponseForSave, the save dialog cancelled: nothing is written
SaveCancelled ==
    /\ aphase = "request"
    /\ <<>> \in ChosenPaths(req)
    /\ aphase' = "cancelled"
    /\ returned' = NoId
    /\ UNCHANGED <<req, fsys, filePath, imgRow, dir, prompt, trashed, storeVars, closeVars>>

\* handleResponseForSave, writeMarkdownFile rejected: the failure is
\* reported to the tab, nothing is collected
SaveFailed ==
    /\ aphase = "request"
    /\ \E chosen \in ChosenPaths(req) \ {<<>>} :
           filePath' = withExtension(chosen)
    /\ aphase' = "failed"
    /\ returned' = NoId
    /\ UNCHANGED <<req, fsys, imgRow, dir, prompt, trashed, storeVars, closeVars>>

\* handleResponseForSave, writeMarkdownFile resolved: the tab id is returned
\* and checkImgAndDelete runs on the written path, up to its prompt
SaveWritten ==
    /\ aphase = "request"
    /\ \E chosen \in ChosenPaths(req) \ {<<>>} :
          LET p == withExtension(chosen)
              fs1 == [x \in DOMAIN fsys \cup {p} |-> IF x = p THEN FileNode ELSE fsys[x]]
              r == checkImgAndDelete(fs1, p, req.markdown)
          IN /\ filePath' = p
             /\ fsys' = fs1
             /\ imgRow' = r.imgRow
             /\ dir' = r.dir
             /\ prompt' = r.paths
             /\ aphase' = IF r.outcome = "prompt" THEN "prompt"
                          ELSE IF r.outcome = "threw" THEN "collectThrew"
                          ELSE "collected"
    /\ returned' = req.id
    /\ UNCHANGED <<req, trashed, storeVars, closeVars>>

Range(f) == {f[x] : x \in DOMAIN f}

\* the file system once shell.trashItem moved the paths of gone away
trashItems(fs, gone) ==
    [x \in DOMAIN fs \ gone |->
        [isDir |-> fs[x].isDir,
         entries |-> {e \in fs[x].entries : x \o Sep \o e \notin gone}]]

\* every path that exists in the file system
PathsOf(fs) ==
    DOMAIN fs \cup UNION {{x \o Sep \o e : e \in fs[x].entries} : x \in DOMAIN fs}

\* tryDelete after showIfDeleteMessage answered "Yes, delete": every listed
\* path goes to shell.trashItem, which may fail for some of them
AnswerYes ==
    /\ aphase = "prompt"
    /\ trashed' = trashed \cup Range(prompt)
    /\ \E failing \in SUBSET Range(prompt) :
           fsys' = trashItems(fsys, Range(prompt) \ failing)
    /\ aphase' = "deleted"
    /\ UNCHANGED <<req, filePath, imgRow, dir, prompt, returned, storeVars, closeVars>>

\* a tryDelete that removes the listed paths whatever the answer
AnswerNo_removes ==
    /\ aphase = "prompt"
    /\ trashed' = trashed \cup Range(prompt)
    /\ fsys' = trashItems(fsys, Range(prompt))
    /\ aphase' = "declined"
    /\ UNCHANGED <<req, filePath, imgRow, dir, prompt, returned, storeVars, closeVars>>

\* showIfDeleteMessage answered "No, do nothing" or dismissed
AnswerNo ==
    /\ aphase = "prompt"
    /\ aphase' = "declined"
    /\ UNCHANGED <<req, fsys, filePath, imgRow, dir, prompt, trashed, returned, storeVars, closeVars>>

\* 'mt::response-file-save' arrives again for the same tab once the previous
\* request is over: the tab keeps the path it was saved at
SaveAgain ==
    /\ aphase \in {"cancelled", "failed", "collected", "collectThrew",
                   "deleted", "declined"}
    /\ \E m \in BasicContents :
           req' = [id |-> req.id,
                   pathname |-> IF returned = NoId THEN req.pathname ELSE filePath,
                   markdown |-> m]
    /\ aphase' = "request"
    /\ filePath' = <<>>
    /\ imgRow' = <<>>
    /\ dir' = <<>>
    /\ prompt' = <<>>
    /\ returned' = NoId
    /\ UNCHANGED <<fsys, trashed, storeVars, closeVars>>

AssetNext ==
    \/ SaveCancelled
    \/ SaveFailed
    \/ SaveWritten
    \/ AnswerYes
    \/ AnswerNo
    \/ SaveAgain

----------------------------------------------------------------------------
(* Closing tabs or the window with unsaved files                           *)
(* (file.js: 'mt::save-and-close-tabs', 'mt::close-window-confirm')        *)

SaveAndCloseTabs == "mt::save-and-close-tabs"
CloseWindowConfirm == "mt::close-window-confirm"

\* the unsaved files of a close request: tab n holds a document with a path
\* or an untitled one
UnsavedFileLists ==
    UNION { [1..n -> {<<>>, BasicPath}] : n \in 1..MaxFiles }

CloseInit ==
    /\ channel \in {SaveAndCloseTabs, CloseWindowConfirm}
    /\ \E paths \in UnsavedFileLists :
           /\ unsavedFiles = [n \in DOMAIN paths |-> [id |-> n, pathname |-> paths[n]]]
           /\ outcome = [n \in DOMAIN paths |-> "unsaved"]
    /\ userResult = "unanswered"
    /\ cphase = "confirm"
    /\ tabIds = {}
    /\ windowClosed = FALSE
    /\ StoreIdle
    /\ AssetIdle

\* showUnsavedFilesMessage answered "Cancel" or dismissed: the handler returns
ConfirmCancel ==
    /\ cphase = "confirm"
    /\ userResult' = "null"
    /\ cphase' = "done"
    /\ UNCHANGED <<channel, unsavedFiles, outcome, tabIds, windowClosed, storeVars, assetVars>>

\* showUnsavedFilesMessage answered "Don't save": every tab is closed, or
\* the window is
ConfirmDontSave ==
    /\ cphase = "confirm"
    /\ userResult' = "needSave: false"
    /\ IF channel = SaveAndCloseTabs
       THEN tabIds' = {unsavedFiles[n].id : n \in DOMAIN unsavedFiles}
            /\ UNCHANGED windowClosed
       ELSE windowClosed' = TRUE /\ UNCHANGED tabIds
    /\ cphase' = "done"
    /\ UNCHANGED <<channel, unsavedFiles, outcome, storeVars, assetVars>>

\* showUnsavedFilesMessage answered "Save": handleResponseForSave is called
\* for every unsaved file
ConfirmSave ==
    /\ cphase = "confirm"
    /\ userResult' = "needSave: true"
    /\ outcome' = [n \in DOMAIN unsavedFiles |-> "saving"]
    /\ cphase' = "saving"
    /\ UNCHANGED <<channel, unsavedFiles, tabIds, windowClosed, storeVars, assetVars>>

\* how handleResponseForSave may end for a file: the save dialog of an
\* untitled document cancelled, the write rejected (caught and reported to
\* the tab), the write done, or writeMarkdownFile throwing before it returns
\* a promise, which nothing inside handleResponseForSave catches
OutcomesOf(file) ==
    {"written", "failed", "threw"} \cup
    (IF file.pathname = <<>> THEN {"cancelled"} ELSE {})

\* whether the promise of handleResponseForSave is rejected
rejected(o) == o = "threw"

\* the value the promise of handleResponseForSave resolves to
resolvedValue(o, id) == IF o = "written" THEN id ELSE NoId

\* handleResponseForSave for the n-th unsaved file settles
FileSettles(n, o) ==
    /\ n \in DOMAIN outcome
    /\ outcome[n] = "saving"
    /\ o \in OutcomesOf(unsavedFiles[n])
    /\ outcome' = [outcome EXCEPT ![n] = o]
    /\ UNCHANGED <<channel, unsavedFiles, userResult, cphase, tabIds, windowClosed,
                   storeVars, assetVars>>

\* Promise.all(...).then: every promise resolved; the tabs whose promise
\* resolved to an id are closed, or the window is
AllResolved ==
    /\ cphase = "saving"
    /\ \A n \in DOMAIN outcome : outcome[n] # "saving" /\ ~rejected(outcome[n])
    /\ LET arr == [n \in DOMAIN outcome |-> resolvedValue(outcome[n], unsavedFiles[n].id)]
       IN IF channel = SaveAndCloseTabs
          THEN tabIds' = {arr[n] : n \in DOMAIN arr} \ {NoId}
               /\ UNCHANGED windowClosed
          ELSE windowClosed' = TRUE /\ UNCHANGED tabIds
    /\ cphase' = "done"
    /\ UNCHANGED <<channel, unsavedFiles, userResult, outcome, storeVars, assetVars>>

\* Promise.all(...).catch: one promise was rejected; closing tabs only logs
\* it, closing the window asks whether to close all the same
AnyRejected ==
    /\ cphase = "saving"
    /\ \E n \in DOMAIN outcome : rejected(outcome[n])
    /\ cphase' = IF channel = SaveAndCloseTabs THEN "done" ELSE "failureDialog"
    /\ UNCHANGED <<channel, unsavedFiles, userResult, outcome, tabIds, windowClosed,
                   storeVars, assetVars>>

\* 'Failure while saving files' answered "Close"
FailureClose ==
    /\ cphase = "failureDialog"
    /\ windowClosed' = TRUE
    /\ cphase' = "done"
    /\ UNCHANGED <<channel, unsavedFiles, userResult, outcome, tabIds, storeVars, assetVars>>

\* 'Failure while saving files' answered "Keep It Open" or dismissed
FailureKeepOpen ==
    /\ cphase = "failureDialog"
    /\ cphase' = "done"
    /\ UNCHANGED <<channel, unsavedFiles, userResult, outcome, tabIds, windowClosed,
                   storeVars, assetVars>>

CloseNext ==
    \/ ConfirmCancel
    \/ ConfirmDontSave
    \/ ConfirmSave
    \/ \E n \in 1..MaxFiles, o \in {"written", "failed", "threw", "cancelled"} :
           FileSettles(n, o)
    \/ AllResolved
    \/ AnyRejected
    \/ FailureClose
    \/ FailureKeepOpen

----------------------------------------------------------------------------

Init == StoreInit \/ AssetInit \/ CloseInit

Next == StoreNext \/ AssetNext \/ CloseNext

Spec == Init /\ [][Next]_vars

----------------------------------------------------------------------------
(* Properties of load and save                                             *)

\* the decoded text of the file as it was loaded
DecodedOriginal == iconvDecode(original, "utf8")

\* the text line-ending detection ran on
DetectedText == decryptOnLoad(pathname, DecodedOriginal).markdown

Loaded == phase = "loaded"

HasChar(s, c) == \E i \in 1..Len(s) : s[i] = c

\* C1: for every decoded file text and every preferred style, the content
\* of the Document returned by load contains no carriage return.
C1_ContentHasNoCR == Loaded => ~HasChar(doc.markdown, CR)

\* C2 as stated: after load adjustLineEndingOnSave is true whenever the
\* resolved lineEnding differs from lf, and whenever the source was mixed or
\* unknown, for either preferred style.
C2_AdjustWhenMixedOrUnknown ==
    Loaded =>
        LET isLf == LF_LINE_ENDING_REG(DetectedText)
            isCrlf == CRLF_LINE_ENDING_REG(DetectedText)
        IN (doc.lineEnding # "lf" \/ (isLf /\ isCrlf) \/ (~isLf /\ ~isCrlf))
               => doc.adjustLineEndingOnSave

\* C2 amended: after load adjustLineEndingOnSave is true exactly when the
\* resolved lineEnding differs from lf; a mixed or unknown source loaded with
\* preferred style lf yields adjustLineEndingOnSave = false.
C2_AdjustIffNotLf ==
    Loaded => (doc.adjustLineEndingOnSave <=> doc.lineEnding # "lf")

\* a mixed source and an unknown source were loaded with preferred style lf
\* (one state each is required, so the witness is the mixed one)
C2_Witness ==
    /\ Loaded
    /\ loadArgs.preferredEol = "lf"
    /\ doc.isMixedLineEndings
    /\ ~doc.adjustLineEndingOnSave

EndsInLf(s) == Len(s) >= 1 /\ s[Len(s)] = LF
EndsInTwoLf(s) == Len(s) >= 2 /\ s[Len(s)] = LF /\ s[Len(s) - 1] = LF

\* C3: without an override the policy follows the LF-normalized content:
\* empty -> disabled; two trailing LF -> disabled; one trailing LF ->
\* ensureSingle; no trailing LF -> trimAll. Empty content and content ending
\* in two LFs get the same value, never the auto-detect value.
C3_PolicyClassification ==
    (Loaded /\ loadArgs.trimTrailingNewline = AutoDetect) =>
        LET m == doc.markdown
            disabled == detectTrailingNewline(<<>>)
        IN /\ doc.trimTrailingNewline # AutoDetect
           /\ (m = <<>> \/ EndsInTwoLf(m)) => doc.trimTrailingNewline = disabled
           /\ (EndsInLf(m) /\ ~EndsInTwoLf(m)) => doc.trimTrailingNewline = EnsureSingle
           /\ (m # <<>> /\ ~EndsInLf(m)) => doc.trimTrailingNewline = TrimAll

Written == phase \in {"writing", "saved", "crashed"}

\* the line break a save writes for the document
WrittenEol(d) ==
    IF d.adjustLineEndingOnSave THEN getLineEnding(d.lineEnding) ELSE <<LF>>

\* C4: save applies the document's trailing-newline policy before line-ending
\* conversion: with ensureSingle the written text ends in exactly one line
\* break (one CRLF under adjustLineEndingOnSave and crlf), with trimAll in none.
C4_SaveAppliesPolicy ==
    (Written /\ ~EndsWith(pathname, DotMde)) =>
        LET w == iconvDecode(buffer, "utf8")
            eol == WrittenEol(doc)
        IN /\ doc.trimTrailingNewline = EnsureSingle =>
                  (EndsWith(w, eol) /\ ~EndsWith(w, eol \o eol) /\ ~EndsWith(w, <<LF>> \o eol))
           /\ doc.trimTrailingNewline = TrimAll => ~EndsInLf(w)

C6_DecryptFailureSurfaces ==
    (/\ phase \in {"loaded", "loadFailed"}
     /\ doc.status # "UnsupportedEncoding"
     /\ EndsWith(pathname, DotMde)
     /\ ~aesDecryptiv(DecodedOriginal, mm).ok)
        => doc.status = "DecryptionFailure"

\* C10: save is atomic with respect to crashes: when the process stops during
\* a save, the file holds the complete previous bytes or the complete new bytes.
C10_AtomicSave ==
    phase = "crashed" => (disk = original \/ disk = buffer)

----------------------------------------------------------------------------
(* Properties of the scanner and the collector                             *)

\* checkImgAndDelete ran to its end and nothing was removed since
Collected == aphase \in {"collected", "prompt", "declined"}

\* the scanner returned
Scanned == aphase \in {"collected", "prompt", "declined", "deleted"}

\* ![x](a.png) <img src="b.png">
ExampleContent == LinkA \o <<" ">> \o ImgB

MarkA == <<"[", "x", "]", "(">> \o AssetNames[1] \o <<")">>
MarkAA == <<"[", "y", "]", "(">> \o AssetNames[4] \o <<")">>
SrcB == SrcWord \o <<"=", Quote>> \o AssetNames[2] \o <<Quote>>

\* e is a link match of the content, decoded: from a "[" to a ")" with "]("
\* between them
IsLinkRef(content, e) ==
    \E i, j \in 1..Len(content) :
        /\ content[i] = "["
        /\ content[j] = ")"
        /\ i < j
        /\ IndexOf(SubSeq(content, i, j), <<"]", "(">>) > 0
        /\ ~Malformed(SubSeq(content, i, j))
        /\ decodeURI(SubSeq(content, i, j)) = e

\* e is a src attribute match of the content, decoded: from " src" to a quote
IsSrcRef(content, e) ==
    \E i, j \in 1..Len(content) :
        /\ MatchesAt(content, i, SrcWord)
        /\ content[j] = Quote
        /\ i < j
        /\ ~Malformed(SubSeq(content, i, j))
        /\ decodeURI(SubSeq(content, i, j)) = e

IsSubstring(name, ref) == \E i \in 1..Len(ref) : MatchesAt(ref, i, name)

\* C8: the candidates after a save: asset directory absent -> none and no
\* prompt; present and no references -> the directory itself; otherwise ->
\* exactly the entries whose name is a substring of no reference.
C8_OrphanCandidates ==
    Collected =>
        /\ ~existsSync(fsys, dir) => (prompt = <<>> /\ aphase = "collected")
        /\ (existsSync(fsys, dir) /\ imgRow = <<>>) => prompt = <<dir>>
        /\ (existsSync(fsys, dir) /\ imgRow # <<>>) =>
               /\ Range(prompt) =
                      { dir \o Sep \o name : name \in
                          { e \in fsys[dir].entries :
                              \A n \in 1..Len(imgRow) : ~IsSubstring(e, imgRow[n]) } }
               /\ Cardinality(Range(prompt)) = Len(prompt)
               /\ (prompt = <<>> <=> aphase = "collected")

\* entries {a.png, b.png, c.png} with the one reference to a.png: the prompt
\* lists b.png and c.png
C8_Witness ==
    /\ aphase = "prompt"
    /\ existsSync(fsys, dir)
    /\ fsys[dir].entries = {AssetNames[1], AssetNames[2], AssetNames[3]}
    /\ imgRow = <<MarkA>>
    /\ prompt = <<dir \o Sep \o AssetNames[2], dir \o Sep \o AssetNames[3]>>

\* C9: for every saved pathname the asset directory the collector examines is
\* the pathname with only its final extension removed and ".assets" appended.
C9_AssetDirIsSibling ==
    Scanned => dir = SiblingAssetDir(filePath)

----------------------------------------------------------------------------
(* Properties of removal                                                   *)

Removed == PathsOf(fsys) \ PathsOf(fsys')

\* C11: a path is handed to removal only in the step that answers a prompt
\* listing it with "Yes, delete"; a step that declines or dismisses the
\* prompt removes nothing, and a step in which the save fails or its dialog
\* is cancelled removes nothing, lists nothing and collects nothing.
C11_RemovalOnlyAfterYes ==
    [][ /\ (trashed' # trashed \/ Removed # {}) =>
              /\ aphase = "prompt" /\ aphase' = "deleted"
              /\ (trashed' \ trashed) \subseteq Range(prompt)
              /\ \A gone \in Removed : \E listed \in Range(prompt) :
                     gone = listed \/ MatchesAt(gone, 1, listed \o Sep)
        /\ (aphase = "prompt" /\ aphase' = "declined") =>
              (trashed' = trashed /\ fsys' = fsys)
        /\ (aphase = "request" /\ aphase' \in {"failed", "cancelled"}) =>
              /\ trashed' = trashed /\ fsys' = fsys
              /\ prompt' = <<>> /\ imgRow' = <<>> /\ dir' = <<>> ]_vars

\* a second save of the tab had its prompt answered "Yes, delete" after an
\* earlier save of it had already removed something
C11_Witness ==
    /\ aphase = "deleted"
    /\ Range(prompt) # {}
    /\ trashed \ Range(prompt) # {}
    /\ Range(prompt) \cap PathsOf(fsys) = {}

----------------------------------------------------------------------------
(* Properties of the secure codec                                          *)

SecureSave == secureExtension(extname(pathname))

\* C12: saving the same content again under the secure extension does not
\* write the ciphertext the previous save of it wrote.
C12_FreshIvPerSave ==
    [][ (SecureSave /\ phase = "saved" /\ phase' = "writing") =>
            buffer' # buffer ]_vars

----------------------------------------------------------------------------
(* Properties of the deletion candidates                                   *)

\* C13: after a successful save every path offered for deletion is the
\* document's sibling asset directory or a direct entry of it, and the
\* saved document's own path is never offered.
C13_CandidatesInsideAssetDir ==
    (returned # NoId) =>
        \A n \in 1..Len(prompt) :
            /\ prompt[n] # filePath
            /\ \/ prompt[n] = SiblingAssetDir(filePath)
               \/ \E e \in EntryNames :
                      prompt[n] = SiblingAssetDir(filePath) \o Sep \o e

----------------------------------------------------------------------------
(* Properties of closing after a save                                      *)

SaveChosen == userResult = "needSave: true"

\* the tabs of the close request whose document was written
WrittenTabs ==
    {unsavedFiles[n].id : n \in {k \in DOMAIN unsavedFiles : outcome[k] = "written"}}

\* C14 as stated: with Save chosen, only tabs whose document was written are
\* force-closed, and the window-close event is emitted only if every
\* document was written.
C14_CloseOnlyWhatWasSaved ==
    SaveChosen =>
        /\ tabIds \subseteq WrittenTabs
        /\ windowClosed => \A n \in DOMAIN outcome : outcome[n] = "written"

====
